---------------------------- MODULE Spec2Model ----------------------------
(***************************************************************************)
(* A model of app.py: the concurrent, batched pagination over the Messari  *)
(* assets API (get_assets_from_messari and the per-page coroutine          *)
(* get_one_page_asset_data_from_messari) and the script's pipeline         *)
(* fetch -> read csv -> upsert -> sort -> save.                            *)
(*                                                                         *)
(* The remote API and the csv file found on disk are the environment: Init *)
(* draws them from bounded sets.  The asyncio event loop is modelled by    *)
(* the interleaving of Resolve steps (one per task of the running batch)   *)
(* with the steps of the main coroutine.                                   *)
(***************************************************************************)
EXTENDS Integers, Sequences, FiniteSets, TLC

(* ------------------------------ bounds --------------------------------- *)

\* page indices 1..MaxPage answer arbitrarily; every later page is past the
\* end of the remote collection and answers 404
MaxPage == 3

\* the records one page holds at most (the "limit=500" of the endpoint)
PageLimit == 2

\* the widths tried besides the one of the source
MaxWidth == 3

\* the assets a fetch result holds at most, the rows a csv file found on
\* disk holds at most, and the runs of the script over the same file, in
\* the specification of the merge
MaxFetch == 3

MaxStored == 2

MaxRuns == 2

(* --------------------------- program constants ------------------------- *)

NUM_OF_CONCURRENT_SESSIONS == 7

MESSARI_ASSETS_INDEX_ATTRIBUTE == "id"

CSV_COLUMNS == <<"ID", "Symbol", "Name", "Slug", "Price in USD", "Rank">>

CSV_INDEX_COLUMN == "ID"

(* ------------------------------- values -------------------------------- *)

\* a Python value: its type and its text; None and NaN carry no text
Value(t, v) == [t |-> t, v |-> v]

None == Value("none", "")

NaN == Value("nan", "")

Range(s) == {s[k] : k \in DOMAIN s}

\* the integers whose texts the model's data holds (ranks, orders)
Ints == 0..(MaxPage * PageLimit + 9)

IntTexts == {ToString(n) : n \in Ints}

\* the text of the float an integer converts to
FloatText(v) == IF v \in IntTexts THEN v \o ".0" ELSE v

FloatTexts == {FloatText(v) : v \in IntTexts} \cup {"1.5", "2.5"}

\* the width is a module constant of the source; the model also runs the
\* same code with the smaller widths 1..MaxWidth, where several batches fit
\* into the bounded remote collection
Widths == (1..MaxWidth) \cup {NUM_OF_CONCURRENT_SESSIONS}

\* one element of the "data" array of a response
RemoteAsset(n) ==
    [id |-> n, symbol |-> Value("str", "SYM"), name |-> Value("str", "Name"),
     slug |-> Value("str", "slug"),
     price_usd |-> IF n % 2 = 0 THEN None ELSE Value("float", "1.5"),
     rank |-> IF n % 3 = 0 THEN None ELSE Value("int", "7")]

\* the n first records the remote holds for page p
PageData(p, n) == [j \in 1..n |-> RemoteAsset((p - 1) * PageLimit + j)]

\* a response body: status.error_code (0: the key is absent) and data;
\* neterr: the first attempt of the request fails in the transport (timeout,
\* connection reset) and a later attempt would be answered with this body
Body(neterr, code, data) == [neterr |-> neterr, error_code |-> code, data |-> data]

PastLastPage == Body(FALSE, 404, <<>>)

\* the answers page p may give: a page that is empty, holds one record or is
\* full; the end of the data; an error; a failure of the transport
ResponsesOf(p) ==
    {Body(FALSE, 0, PageData(p, n)) : n \in {0, 1, PageLimit}}
        \cup {PastLastPage, Body(FALSE, 500, <<>>)}
        \cup {Body(TRUE, 0, PageData(p, PageLimit))}

Remotes == {r \in [1..MaxPage -> UNION {ResponsesOf(p) : p \in 1..MaxPage}] :
                \A p \in 1..MaxPage : r[p] \in ResponsesOf(p)}

NoError == [type |-> "none", page |-> 0]

\* a row of the csv file as an earlier run wrote it for asset n
StoredRow(n, symbol, price, rank) ==
    [ID |-> n,
     cell |-> [c \in {"Symbol", "Name", "Slug", "Price in USD", "Rank"} |->
                 IF c = "Symbol" THEN symbol
                 ELSE IF c = "Name" THEN "Old name"
                 ELSE IF c = "Slug" THEN "old-slug"
                 ELSE IF c = "Price in USD" THEN price ELSE rank]]

\* the csv files the script may find: none, or one written by an earlier run
\* holding asset 2 (which page 1 may return again) and an asset the remote
\* does not return any more
PriorFiles ==
    {[exists |-> FALSE, header |-> <<>>, rows |-> <<>>],
     [exists |-> TRUE, header |-> CSV_COLUMNS,
      rows |-> <<StoredRow(MaxPage * PageLimit + 1, "GONE", "2.5", "3"),
                 StoredRow(2, "OLD", "", "9")>>]}

\* the value of a name that is not bound yet
NoValue == <<[unbound |-> TRUE]>>

(* ------------------------------- state --------------------------------- *)

VARIABLES
    remote,          \* the remote API: page index -> response body
    step,            \* NUM_OF_CONCURRENT_SESSIONS as configured for the run
    pc,              \* position of the script / the main coroutine
    session,         \* the aiohttp ClientSession: "unopened", "open", "closed"
    i,               \* first page index of the current batch
    tasks,           \* the futures of the current batch, in launch order
    gather_exc,      \* the exception gather() got first, if any
    all_asset_data,  \* the accumulated record list
    requested,       \* page indices requested so far, in launch order
    error,           \* the exception that ended the run, if any
    assets,          \* what get_assets_from_messari returned to the script
    crypto_df,       \* the DataFrame df of the script
    csv_file,        \* the csv file on disk
    csv_before,      \* the csv file as it was when the script started
    run              \* the number of the run of the script, from 1

vars == <<remote, step, pc, session, i, tasks, gather_exc, all_asset_data,
          requested, error, assets, crypto_df, csv_file, csv_before, run>>

(* ----------------------------- PageFetcher ----------------------------- *)

\* the response to a request for page p
Response(p) == IF p \in DOMAIN remote THEN remote[p] ELSE PastLastPage

\* a variant that takes every error status for the end of the data
FetchTakingEveryErrorForTheEnd(p) ==
    LET resp == Response(p) IN
    IF resp.neterr
    THEN [state |-> "raised", page |-> p, result |-> <<>>,
          exc |-> [type |-> "ClientError", page |-> p]]
    ELSE IF resp.error_code # 0
    THEN [state |-> "done", page |-> p, result |-> <<>>, exc |-> NoError]
    ELSE [state |-> "done", page |-> p, result |-> resp.data, exc |-> NoError]

\* get_one_page_asset_data_from_messari: how the coroutine for page p ends
get_one_page_asset_data_from_messari(p) ==
    LET resp == Response(p) IN
    IF resp.neterr
    THEN [state |-> "raised", page |-> p, result |-> <<>>,
          exc |-> [type |-> "ClientError", page |-> p]]
    ELSE IF resp.error_code # 0
    THEN IF resp.error_code = 404
         THEN [state |-> "done", page |-> p, result |-> <<>>, exc |-> NoError]
         ELSE [state |-> "raised", page |-> p, result |-> <<>>,
               exc |-> [type |-> "Exception", page |-> p]]
    ELSE [state |-> "done", page |-> p, result |-> resp.data, exc |-> NoError]

InFlight(p) == [state |-> "in_flight", page |-> p, result |-> <<>>, exc |-> NoError]

(* --------------------------- ParallelPaginator ------------------------- *)

RECURSIVE Flatten(_)
\* for item in asset_data_gathered: all_asset_data += item
Flatten(items) ==
    IF items = <<>> THEN <<>> ELSE Head(items) \o Flatten(Tail(items))

\* async with aiohttp.ClientSession() as session: step = ...
OpenSession ==
    /\ pc = "start"
    /\ session' = "open"
    /\ i' = 1
    /\ all_asset_data' = <<>>
    /\ pc' = "launch"
    /\ UNCHANGED <<remote, step, tasks, gather_exc, requested, error, assets,
                   crypto_df, csv_file, csv_before, run>>

\* a variant that creates the tasks of pages i .. i+step
LaunchBatchOfOneMore ==
    /\ pc = "launch"
    /\ tasks' = [k \in 1..(step + 1) |-> InFlight(i + k - 1)]
    /\ requested' = requested \o [k \in 1..(step + 1) |-> i + k - 1]
    /\ gather_exc' = NoError
    /\ pc' = "gather"
    /\ UNCHANGED <<remote, step, session, i, all_asset_data, error, assets,
                   crypto_df, csv_file, csv_before, run>>

\* the list comprehension creating the step tasks of pages i .. i+step-1 and
\* the start of the await on gather: the tasks were queued with call_soon
\* before the main coroutine suspends, so each runs up to its request before
\* any of them can complete
LaunchBatch ==
    /\ pc = "launch"
    /\ tasks' = [k \in 1..step |-> InFlight(i + k - 1)]
    /\ requested' = requested \o [k \in 1..step |-> i + k - 1]
    /\ gather_exc' = NoError
    /\ pc' = "gather"
    /\ UNCHANGED <<remote, step, session, i, all_asset_data, error, assets,
                   crypto_df, csv_file, csv_before, run>>

\* a variant that appends a page to the result as soon as its request
\* completes
ResolveAppendingOnCompletion(k) ==
    /\ pc = "gather"
    /\ k \in DOMAIN tasks
    /\ tasks[k].state = "in_flight"
    /\ LET t == get_one_page_asset_data_from_messari(tasks[k].page) IN
       /\ tasks' = [tasks EXCEPT ![k] = [t EXCEPT !.result = <<>>]]
       /\ all_asset_data' = all_asset_data \o t.result
       /\ gather_exc' = IF t.state = "raised" /\ gather_exc = NoError
                        THEN t.exc ELSE gather_exc
    /\ UNCHANGED <<remote, step, pc, session, i, requested, error, assets,
                   crypto_df, csv_file, csv_before, run>>

\* the response of the k-th request of the batch arrives: its task finishes;
\* gather() keeps the first exception it is told of
Resolve(k) ==
    /\ pc = "gather"
    /\ k \in DOMAIN tasks
    /\ tasks[k].state = "in_flight"
    /\ LET t == get_one_page_asset_data_from_messari(tasks[k].page) IN
       /\ tasks' = [tasks EXCEPT ![k] = t]
       /\ gather_exc' = IF t.state = "raised" /\ gather_exc = NoError
                        THEN t.exc ELSE gather_exc
    /\ UNCHANGED <<remote, step, pc, session, i, all_asset_data, requested,
                   error, assets,
                   crypto_df, csv_file, csv_before, run>>

\* a variant that tests for an empty page before it appends the batch
GatherReturnBreakingBeforeAppend ==
    /\ pc = "gather"
    /\ \A k \in DOMAIN tasks : tasks[k].state = "done"
    /\ LET asset_data_gathered == [k \in DOMAIN tasks |-> tasks[k].result] IN
       IF \E k \in DOMAIN asset_data_gathered : Len(asset_data_gathered[k]) = 0
       THEN pc' = "return" /\ i' = i /\ all_asset_data' = all_asset_data
       ELSE /\ pc' = "launch" /\ i' = i + step
            /\ all_asset_data' = all_asset_data \o Flatten(asset_data_gathered)
    /\ UNCHANGED <<remote, step, session, tasks, gather_exc, requested, error,
                   assets, crypto_df, csv_file, csv_before, run>>

\* a variant that stops only when the last page of the batch is empty
GatherReturnTestingLastPage ==
    /\ pc = "gather"
    /\ \A k \in DOMAIN tasks : tasks[k].state = "done"
    /\ LET asset_data_gathered == [k \in DOMAIN tasks |-> tasks[k].result] IN
       /\ all_asset_data' = all_asset_data \o Flatten(asset_data_gathered)
       /\ IF Len(asset_data_gathered[Len(asset_data_gathered)]) = 0
          THEN pc' = "return" /\ i' = i
          ELSE pc' = "launch" /\ i' = i + step
    /\ UNCHANGED <<remote, step, session, tasks, gather_exc, requested, error,
                   assets, crypto_df, csv_file, csv_before, run>>

\* a variant that stops the loop at the first page of the batch: once the
\* first page is empty, the pages after it are not appended
GatherReturnStoppingAtFirstPage ==
    /\ pc = "gather"
    /\ \A k \in DOMAIN tasks : tasks[k].state = "done"
    /\ LET asset_data_gathered == [k \in DOMAIN tasks |-> tasks[k].result] IN
       IF Len(asset_data_gathered[1]) = 0
       THEN pc' = "return" /\ i' = i /\ all_asset_data' = all_asset_data
       ELSE /\ all_asset_data' = all_asset_data \o Flatten(asset_data_gathered)
            /\ IF \E k \in DOMAIN asset_data_gathered : Len(asset_data_gathered[k]) = 0
               THEN pc' = "return" /\ i' = i
               ELSE pc' = "launch" /\ i' = i + step
    /\ UNCHANGED <<remote, step, session, tasks, gather_exc, requested, error,
                   assets, crypto_df, csv_file, csv_before, run>>

\* a variant that keeps the pages of the batch up to its first empty page
GatherReturnCuttingAtEmptyPage ==
    /\ pc = "gather"
    /\ \A k \in DOMAIN tasks : tasks[k].state = "done"
    /\ LET asset_data_gathered == [k \in DOMAIN tasks |-> tasks[k].result]
           empties == {k \in DOMAIN asset_data_gathered : Len(asset_data_gathered[k]) = 0}
           first == CHOOSE k \in empties : \A x \in empties : k <= x
       IN IF empties # {}
          THEN /\ all_asset_data' = all_asset_data
                                       \o Flatten(SubSeq(asset_data_gathered, 1, first))
               /\ pc' = "return" /\ i' = i
          ELSE /\ all_asset_data' = all_asset_data \o Flatten(asset_data_gathered)
               /\ pc' = "launch" /\ i' = i + step
    /\ UNCHANGED <<remote, step, session, tasks, gather_exc, requested, error,
                   assets, crypto_df, csv_file, csv_before, run>>

\* a variant that goes on as soon as one request has returned an empty page
GatherReturnOnFirstEmptyPage ==
    /\ pc = "gather"
    /\ gather_exc = NoError
    /\ \/ \A k \in DOMAIN tasks : tasks[k].state = "done"
       \/ \E k \in DOMAIN tasks : tasks[k].state = "done" /\ tasks[k].result = <<>>
    /\ LET asset_data_gathered == [k \in DOMAIN tasks |-> tasks[k].result] IN
       /\ all_asset_data' = all_asset_data \o Flatten(asset_data_gathered)
       /\ IF \E k \in DOMAIN tasks : tasks[k].state = "done" /\ tasks[k].result = <<>>
          THEN pc' = "return" /\ i' = i
          ELSE pc' = "launch" /\ i' = i + step
    /\ UNCHANGED <<remote, step, session, tasks, gather_exc, requested, error,
                   assets, crypto_df, csv_file, csv_before, run>>

\* asset_data_gathered = await asyncio.gather(*tasks) returns once every task
\* is done; then the append loop and the test for an empty page
GatherReturn ==
    /\ pc = "gather"
    /\ \A k \in DOMAIN tasks : tasks[k].state = "done"
    /\ LET asset_data_gathered == [k \in DOMAIN tasks |-> tasks[k].result] IN
       /\ all_asset_data' = all_asset_data \o Flatten(asset_data_gathered)
       /\ IF \E k \in DOMAIN asset_data_gathered : Len(asset_data_gathered[k]) = 0
          THEN pc' = "return" /\ i' = i
          ELSE pc' = "launch" /\ i' = i + step
    /\ UNCHANGED <<remote, step, session, tasks, gather_exc, requested, error,
                   assets,
                   crypto_df, csv_file, csv_before, run>>

\* a variant that catches the exception, leaves the loop and returns what
\* it has
GatherRaiseKeepingPartialResult ==
    /\ pc = "gather"
    /\ gather_exc # NoError
    /\ error' = gather_exc
    /\ pc' = "return"
    /\ UNCHANGED <<remote, step, session, i, tasks, gather_exc, all_asset_data,
                   requested, assets, crypto_df, csv_file, csv_before, run>>

\* a variant that opens the session without async with: an exception leaves
\* it open
GatherRaiseLeavingSessionOpen ==
    /\ pc = "gather"
    /\ gather_exc # NoError
    /\ error' = gather_exc
    /\ pc' = "failed"
    /\ UNCHANGED <<remote, step, session, i, tasks, gather_exc, all_asset_data,
                   requested, assets, crypto_df, csv_file, csv_before, run>>

\* await asyncio.gather(*tasks) raises the first exception of a task as soon
\* as it is set, the other tasks are left as they are; the exception leaves
\* the async with block (closing the session), get_assets_from_messari and
\* run_until_complete, and ends the script
GatherRaise ==
    /\ pc = "gather"
    /\ gather_exc # NoError
    /\ error' = gather_exc
    /\ session' = "closed"
    /\ pc' = "failed"
    /\ UNCHANGED <<remote, step, i, tasks, gather_exc, all_asset_data,
                   requested, assets,
                   crypto_df, csv_file, csv_before, run>>

\* after the break: the async with block is left, the list is returned
ReturnAssets ==
    /\ pc = "return"
    /\ session' = "closed"
    /\ assets' = all_asset_data
    /\ pc' = "read"
    /\ UNCHANGED <<remote, step, i, tasks, gather_exc, all_asset_data,
                   requested, error,
                   crypto_df, csv_file, csv_before, run>>

(* ------------------------------ RecordStore ---------------------------- *)

\* a csv file: its header and its rows, every cell a text; row.ID is the
\* cell of the ID column, row.cell the cells of the other columns
NoFile == [exists |-> FALSE, header |-> <<>>, rows |-> <<>>]

CsvFile(header, rows) == [exists |-> TRUE, header |-> header, rows |-> rows]

\* a DataFrame: the index (row labels, in row order), the columns in order,
\* and the value of every column at every label
DataFrame(index, columns, val) == [index |-> index, columns |-> columns, val |-> val]

NoFrame == DataFrame(<<>>, <<>>, <<>>)

\* the dtype read_csv infers for a column from the texts of its cells
CsvDtype(texts) ==
    IF \E t \in texts : t # "" /\ t \notin IntTexts /\ t \notin FloatTexts
    THEN "object"
    ELSE IF texts # {} /\ texts \subseteq IntTexts THEN "int64"
    ELSE IF texts = {} THEN "object" ELSE "float64"

\* the value read_csv gives a cell in a column of that dtype
ParseCell(text, dtype) ==
    IF text = "" THEN NaN
    ELSE IF dtype = "int64" THEN Value("int", text)
    ELSE IF dtype = "float64" THEN Value("float", FloatText(text))
    ELSE Value("str", text)

\* pd.read_csv(filename) followed by set_index("ID")
read_csv(file) ==
    LET columns == SelectSeq(file.header, LAMBDA c : c # CSV_INDEX_COLUMN)
        index == [k \in DOMAIN file.rows |-> file.rows[k].ID]
        texts(c) == {file.rows[k].cell[c] : k \in DOMAIN file.rows}
        row(id) == file.rows[CHOOSE k \in DOMAIN file.rows : file.rows[k].ID = id]
    IN DataFrame(index, columns,
                 [c \in Range(columns) |->
                    [id \in Range(index) |-> ParseCell(row(id).cell[c], CsvDtype(texts(c)))]])

\* read_cryptocurrencies_from_csv: a missing file gives the empty frame with
\* the columns of CSV_COLUMNS
read_cryptocurrencies_from_csv(file) ==
    IF file.exists
    THEN read_csv(file)
    ELSE LET columns == SelectSeq(CSV_COLUMNS, LAMBDA c : c # CSV_INDEX_COLUMN)
         IN DataFrame(<<>>, columns, [c \in Range(columns) |-> <<>>])

\* the text to_csv writes for a value (na_rep is the empty text)
CsvText(value) == IF value.t \in {"nan", "none"} THEN "" ELSE value.v

\* crypto_df.to_csv(filename, index=True, index_label="ID")
to_csv(df) ==
    CsvFile(<<CSV_INDEX_COLUMN>> \o df.columns,
            [k \in DOMAIN df.index |->
                [ID |-> df.index[k],
                 cell |-> [c \in Range(df.columns) |-> CsvText(df.val[c][df.index[k]])]]])

(* ------------------------------ MergeEngine ---------------------------- *)

\* a dict of dicts {column: {label: value}}: cols and keys[c] are the keys in
\* insertion order
Dict(cols, keys, val) == [cols |-> cols, keys |-> keys, val |-> val]

\* crypto_df.to_dict()
to_dict(df) ==
    Dict(df.columns, [c \in Range(df.columns) |-> df.index], df.val)

\* d[c] = {}
SetEmpty(d, c) ==
    Dict(IF c \in Range(d.cols) THEN d.cols ELSE Append(d.cols, c),
         [x \in Range(d.cols) \cup {c} |-> IF x = c THEN <<>> ELSE d.keys[x]],
         [x \in Range(d.cols) \cup {c} |-> IF x = c THEN <<>> ELSE d.val[x]])

\* d[c][index] = value
SetItem(d, c, index, value) ==
    Dict(d.cols,
         [d.keys EXCEPT ![c] = IF index \in Range(@) THEN @ ELSE Append(@, index)],
         [d.val EXCEPT ![c] = [id \in DOMAIN @ \cup {index} |->
                                  IF id = index THEN value ELSE @[id]]])

\* update_crypto_dict_with_messari_asset keeping the slug a row already has
UpdateKeepingStoredSlug(crypto_dict, order, asset) ==
    LET index == asset[MESSARI_ASSETS_INDEX_ATTRIBUTE]
        d1 == SetItem(crypto_dict, "Order", index, Value("int", ToString(order)))
        d2 == SetItem(d1, "Symbol", index, asset.symbol)
        d3 == SetItem(d2, "Name", index, asset.name)
        d4 == IF index \in Range(d3.keys["Slug"]) THEN d3
              ELSE SetItem(d3, "Slug", index, asset.slug)
        d5 == SetItem(d4, "Price in USD", index, asset.price_usd)
    IN SetItem(d5, "Rank", index, asset.rank)

\* update_crypto_dict_with_messari_asset
update_crypto_dict_with_messari_asset(crypto_dict, order, asset) ==
    LET index == asset[MESSARI_ASSETS_INDEX_ATTRIBUTE]
        d1 == SetItem(crypto_dict, "Order", index, Value("int", ToString(order)))
        d2 == SetItem(d1, "Symbol", index, asset.symbol)
        d3 == SetItem(d2, "Name", index, asset.name)
        d4 == SetItem(d3, "Slug", index, asset.slug)
        d5 == SetItem(d4, "Price in USD", index, asset.price_usd)
    IN SetItem(d5, "Rank", index, asset.rank)

RECURSIVE UpsertLoop(_, _, _)
\* for order, asset in enumerate(updated_assets), from position n on
UpsertLoop(crypto_dict, updated_assets, n) ==
    IF n > Len(updated_assets) THEN crypto_dict
    ELSE UpsertLoop(update_crypto_dict_with_messari_asset(
                        crypto_dict, n - 1, updated_assets[n]),
                    updated_assets, n + 1)

\* the labels of all inner dicts one after the other, repeated ones kept
KeepingRepeats(s) == s

RECURSIVE Unique(_)
\* the elements of a sequence in the order of their first occurrence
Unique(s) ==
    IF s = <<>> THEN <<>>
    ELSE LET init == Unique(SubSeq(s, 1, Len(s) - 1))
             last == s[Len(s)]
         IN IF last \in Range(init) THEN init ELSE Append(init, last)

\* the dtype the DataFrame constructor infers for a column of Python values
ObjectsDtype(values) ==
    IF \E v \in values : v.t = "str" THEN "object"
    ELSE IF values # {} /\ \A v \in values : v.t = "int" THEN "int64"
    ELSE IF \A v \in values : v.t = "none" THEN "object"
    ELSE "float64"

\* the value as stored in a column of that dtype
Cast(value, dtype) ==
    IF dtype = "float64"
    THEN IF value.t = "int" THEN Value("float", FloatText(value.v))
         ELSE IF value.t = "none" THEN NaN ELSE value
    ELSE value

\* pd.DataFrame.from_dict(crypto_dict): the labels are the union of the inner
\* dicts' keys in the order of first occurrence; a label a column lacks is NaN
from_dict(d) ==
    LET index == Unique(Flatten([k \in DOMAIN d.cols |-> d.keys[d.cols[k]]]))
        raw(c, id) == IF id \in Range(d.keys[c]) THEN d.val[c][id] ELSE NaN
        dtype(c) == ObjectsDtype({raw(c, id) : id \in Range(index)})
    IN DataFrame(index, d.cols,
                 [c \in Range(d.cols) |->
                    [id \in Range(index) |-> Cast(raw(c, id), dtype(c))]])

\* upsert_cryptocurrencies
upsert_cryptocurrencies(df, updated_assets) ==
    from_dict(UpsertLoop(SetEmpty(to_dict(df), "Order"), updated_assets, 1))

(* ------------------------------- Sequencer ----------------------------- *)

\* the number an int or float value of the Order column stands for
Number(value) ==
    CHOOSE n \in Ints : value.v = ToString(n) \/ value.v = FloatText(ToString(n))

\* sort_values losing the rows that have no Order
SortValuesDroppingUnranked(df, by) ==
    LET key == df.val[by]
        ranked == SelectSeq(df.index, LAMBDA id : key[id].t # "nan")
        below(id) == {x \in Range(ranked) : Number(key[x]) < Number(key[id])}
        sorted == [r \in 1..Len(ranked) |->
                     CHOOSE id \in Range(ranked) : Cardinality(below(id)) = r - 1]
    IN DataFrame(sorted, df.columns, df.val)

\* sort_values with na_position="first"
SortValuesUnrankedFirst(df, by) ==
    LET key == df.val[by]
        ranked == SelectSeq(df.index, LAMBDA id : key[id].t # "nan")
        last == SelectSeq(df.index, LAMBDA id : key[id].t = "nan")
        below(id) == {x \in Range(ranked) : Number(key[x]) < Number(key[id])}
        sorted == [r \in 1..Len(ranked) |->
                     CHOOSE id \in Range(ranked) : Cardinality(below(id)) = r - 1]
    IN DataFrame(last \o sorted, df.columns, df.val)

\* sort_values turning the rows that have no Order around
SortValuesReversingUnranked(df, by) ==
    LET key == df.val[by]
        ranked == SelectSeq(df.index, LAMBDA id : key[id].t # "nan")
        last == SelectSeq(df.index, LAMBDA id : key[id].t = "nan")
        below(id) == {x \in Range(ranked) : Number(key[x]) < Number(key[id])}
        sorted == [r \in 1..Len(ranked) |->
                     CHOOSE id \in Range(ranked) : Cardinality(below(id)) = r - 1]
    IN DataFrame(sorted \o [k \in 1..Len(last) |-> last[Len(last) + 1 - k]],
                 df.columns, df.val)

\* sort_values(by=["Order"]): ascending, NaN last in their previous order;
\* position r holds the label with r - 1 smaller keys
sort_values(df, by) ==
    LET key == df.val[by]
        ranked == SelectSeq(df.index, LAMBDA id : key[id].t # "nan")
        last == SelectSeq(df.index, LAMBDA id : key[id].t = "nan")
        below(id) == {x \in Range(ranked) : Number(key[x]) < Number(key[id])}
        sorted == [r \in 1..Len(ranked) |->
                     CHOOSE id \in Range(ranked) : Cardinality(below(id)) = r - 1]
    IN DataFrame(sorted \o last, df.columns, df.val)

\* drop(columns=[c]) without inplace=True: the frame keeps the column
DropKeepingColumn(df, c) == df

\* drop(columns=[c])
drop(df, c) ==
    LET columns == SelectSeq(df.columns, LAMBDA x : x # c)
    IN DataFrame(df.index, columns, [x \in Range(columns) |-> df.val[x]])

\* sort_cryptocurrencies
sort_cryptocurrencies(df) == drop(sort_values(df, "Order"), "Order")

(* --------------------------------- script ------------------------------ *)

\* df = read_cryptocurrencies_from_csv(filename=csv_filename)
ReadCsv ==
    /\ pc = "read"
    /\ crypto_df' = read_cryptocurrencies_from_csv(csv_file)
    /\ pc' = "upsert"
    /\ UNCHANGED <<remote, step, session, i, tasks, gather_exc, all_asset_data,
                   requested, error, assets, csv_file, csv_before, run>>

\* df = upsert_cryptocurrencies(crypto_df=df, updated_assets=assets)
Upsert ==
    /\ pc = "upsert"
    /\ crypto_df' = upsert_cryptocurrencies(crypto_df, assets)
    /\ pc' = "sort"
    /\ UNCHANGED <<remote, step, session, i, tasks, gather_exc, all_asset_data,
                   requested, error, assets, csv_file, csv_before, run>>

\* sort_cryptocurrencies(crypto_df=df)
Sort ==
    /\ pc = "sort"
    /\ crypto_df' = sort_cryptocurrencies(crypto_df)
    /\ pc' = "save"
    /\ UNCHANGED <<remote, step, session, i, tasks, gather_exc, all_asset_data,
                   requested, error, assets, csv_file, csv_before, run>>

\* save_cryptocurrencies_to_csv(crypto_df=df, filename=csv_filename)
Save ==
    /\ pc = "save"
    /\ csv_file' = to_csv(crypto_df)
    /\ pc' = "done"
    /\ UNCHANGED <<remote, step, session, i, tasks, gather_exc, all_asset_data,
                   requested, error, assets, crypto_df, csv_before, run>>

\* to_csv opens the file for writing and fails after n of the rows (the disk
\* is full, the file system goes away): the rows written stay in the file
SaveFails ==
    /\ pc = "save"
    /\ \E n \in 0..(Len(crypto_df.index) - 1) :
          LET whole == to_csv(crypto_df)
          IN csv_file' = CsvFile(whole.header, SubSeq(whole.rows, 1, n))
    /\ error' = [type |-> "OSError", page |-> 0]
    /\ pc' = "failed"
    /\ UNCHANGED <<remote, step, session, i, tasks, gather_exc, all_asset_data,
                   requested, assets, crypto_df, csv_before, run>>

(* ---------------------------- specification ---------------------------- *)

Init ==
    /\ remote \in Remotes
    /\ step \in Widths
    /\ pc = "start"
    /\ session = "unopened"
    /\ i = 0
    /\ tasks = <<>>
    /\ gather_exc = NoError
    /\ all_asset_data = <<>>
    /\ requested = <<>>
    /\ error = NoError
    /\ assets = NoValue
    /\ crypto_df = NoFrame
    /\ csv_file \in PriorFiles
    /\ csv_before = csv_file
    /\ run = 1

\* the steps of get_assets_from_messari and of its tasks
Paginator ==
    \/ OpenSession
    \/ LaunchBatch
    \/ \E k \in 1..step : Resolve(k)
    \/ GatherReturn
    \/ GatherRaise
    \/ ReturnAssets

\* the steps of the script after the event loop has returned
Script ==
    \/ ReadCsv
    \/ Upsert
    \/ Sort
    \/ Save
    \/ SaveFails

Next == Paginator \/ Script

Spec == Init /\ [][Next]_vars

(* ----------------- the merge over arbitrary fetch results -------------- *)

\* the identifiers of the assets in the specification of the merge
MergeIds == {1, 2, 3}

\* asset n as the remote returns it when it knows neither price nor rank
UnpricedAsset(n) ==
    [id |-> n, symbol |-> Value("str", "NEW"), name |-> Value("str", "New name"),
     slug |-> Value("str", "new-slug"), price_usd |-> None, rank |-> None]

\* asset n with a rank of its own
RankedAsset(n) ==
    [id |-> n, symbol |-> Value("str", "SYM"), name |-> Value("str", "Name"),
     slug |-> Value("str", "slug"), price_usd |-> Value("float", "1.5"),
     rank |-> Value("int", ToString(n))]

\* the lists get_assets_from_messari may return: any assets in any order,
\* the same identifier more than once too (an asset that moves to the next
\* page between two requests)
FetchResults ==
    UNION {[1..n -> {RankedAsset(k) : k \in MergeIds}
                        \cup {UnpricedAsset(k) : k \in MergeIds}] : n \in 0..MaxFetch}

\* the sequences without repetition of at most n elements of S
RECURSIVE Arrangements(_, _)
Arrangements(S, n) ==
    IF n = 0 THEN {<<>>}
    ELSE Arrangements(S, n - 1) \cup
         {Append(q, x) : q \in Arrangements(S, n - 1), x \in S}

\* the row an earlier run wrote for asset n: asset 1 with a price and an
\* integer rank, asset 2 with a rank alone, asset 3 with a price alone
StoredRowOf(n) ==
    StoredRow(n, IF n = 3 THEN "GONE" ELSE "OLD",
              IF n = 2 THEN "" ELSE "2.5",
              IF n = 3 THEN "" ELSE IF n = 1 THEN "3" ELSE "9")

\* the same row in a file that kept an Order column
StoredRowWithOrder(n, order) ==
    [ID |-> n,
     cell |-> [c \in {"Symbol", "Name", "Slug", "Price in USD", "Rank", "Order"} |->
                 IF c = "Order" THEN order ELSE StoredRowOf(n).cell[c]]]

\* the csv files the script may find: none; a file an earlier run wrote, its
\* identifiers distinct; such a file with an Order column left in it, in
\* the middle or at the end of the header
StoredFiles ==
    LET indexes == {q \in Arrangements(MergeIds, MaxStored) :
                        \A a, b \in DOMAIN q : a # b => q[a] # q[b]}
        kept(q) == [k \in DOMAIN q |-> StoredRowWithOrder(q[k], ToString(Len(q) - k))]
    IN {NoFile}
        \cup {CsvFile(CSV_COLUMNS, [k \in DOMAIN q |-> StoredRowOf(q[k])]) : q \in indexes}
        \cup {CsvFile(Append(CSV_COLUMNS, "Order"), kept(q)) : q \in indexes}
        \cup {CsvFile(<<"ID", "Symbol", "Order", "Name", "Slug", "Price in USD", "Rank">>,
                      kept(q)) : q \in indexes}

\* the script is run once more over the file it has written, and the fetch
\* returns what it returned before
RunAgain ==
    /\ pc = "done"
    /\ run < MaxRuns
    /\ run' = run + 1
    /\ csv_before' = csv_file
    /\ crypto_df' = NoFrame
    /\ pc' = "read"
    /\ UNCHANGED <<remote, step, session, i, tasks, gather_exc, all_asset_data,
                   requested, error, assets, csv_file>>

\* the state of the script when get_assets_from_messari has returned
MergeInit ==
    /\ remote = [p \in 1..MaxPage |-> PastLastPage]
    /\ step = NUM_OF_CONCURRENT_SESSIONS
    /\ pc = "read"
    /\ session = "closed"
    /\ i = 1
    /\ tasks = <<>>
    /\ gather_exc = NoError
    /\ assets \in FetchResults
    /\ all_asset_data = assets
    /\ requested = <<>>
    /\ error = NoError
    /\ crypto_df = NoFrame
    /\ csv_file \in StoredFiles
    /\ csv_before = csv_file
    /\ run = 1

MergeNext == Script \/ RunAgain

MergeSpec == MergeInit /\ [][MergeNext]_vars

(* ------------------------- fairness of the loop ------------------------ *)

\* the event loop runs whatever is ready: every response arrives, and the
\* main coroutine goes on whenever it can
FairSpec == Spec /\ WF_vars(Paginator)

(* ---------------------- what the claims speak of ----------------------- *)

\* the request for page p fails: in the transport, or with a status that
\* is an error other than 404
Fails(p) == Response(p).neterr \/ Response(p).error_code \notin {0, 404}

\* the records the remote holds for page p
PageRecords(p) == IF Response(p).error_code = 0 THEN Response(p).data ELSE <<>>

EmptyPage(p) == ~Fails(p) /\ PageRecords(p) = <<>>

\* the records of pages 1..n in ascending page index
ConcatPages(n) == Flatten([p \in 1..n |-> PageRecords(p)])

\* the pages of the b-th batch
BatchPages(b) == ((b - 1) * step + 1)..(b * step)

\* the first batch that holds an empty page
StopBatch ==
    CHOOSE b \in 1..(MaxPage + 1) :
        /\ \E p \in BatchPages(b) : EmptyPage(p)
        /\ \A c \in 1..(b - 1) : \A p \in BatchPages(c) : ~EmptyPage(p)

Returned == assets # NoValue

FetchFailed == error.type \in {"Exception", "ClientError"}

\* the pages of the batch being gathered, or gathered last
CurrentBatch == {tasks[k].page : k \in DOMAIN tasks}

Pending == {k \in DOMAIN tasks : tasks[k].state = "in_flight"}

(* -------------------------------- claims ------------------------------- *)

\* C1: the record list is the concatenation of the fetched pages in ascending
\* page index, whatever the order in which the requests of a batch complete:
\* at every moment the accumulated list is the concatenation of the pages of
\* the batches gathered so far, and the list returned is a function of the
\* remote collection and the width alone.
C1_ResultIsAscendingConcatenation ==
    /\ pc \in {"launch", "gather"} => all_asset_data = ConcatPages(i - 1)
    /\ pc = "return" => all_asset_data = ConcatPages(i + step - 1)
    /\ Returned => assets = ConcatPages(StopBatch * step)

C1_Witness ==
    /\ Returned
    /\ step >= 2
    /\ Len(requested) > step
    /\ \E p \in 1..(step - 1) : PageRecords(p) # <<>> /\ PageRecords(p + 1) # <<>>

\* the shape of remote collection C2 is about: full pages, then one page
\* that is not full, then empty pages
WellFormedRemote ==
    \E last \in 1..MaxPage :
        /\ \A p \in 1..MaxPage : ~Fails(p)
        /\ \A p \in 1..(last - 1) : Len(PageRecords(p)) = PageLimit
        /\ Len(PageRecords(last)) < PageLimit
        /\ \A p \in (last + 1)..MaxPage : PageRecords(p) = <<>>

RECURSIVE SumOfSizes(_)
SumOfSizes(n) == IF n = 0 THEN 0 ELSE SumOfSizes(n - 1) + Len(PageRecords(n))

\* C2: for a remote collection of full pages followed by one page that is
\* not full and by empty pages, the result holds every record of every
\* non-empty page once, in ascending page order, for every width.
C2_EveryNonEmptyPageOnce ==
    (WellFormedRemote /\ pc \notin {"start", "launch", "gather"}) =>
        /\ Returned \/ pc = "return"
        /\ all_asset_data = ConcatPages(MaxPage)
        /\ Len(all_asset_data) = SumOfSizes(MaxPage)
        /\ \A a, b \in DOMAIN all_asset_data :
              a # b => all_asset_data[a] # all_asset_data[b]

C2_Witness ==
    /\ WellFormedRemote
    /\ Returned
    /\ Len(assets) = (MaxPage - 1) * PageLimit + 1
    /\ step = 2

\* C3: the loop goes from the gather of a batch to the launch of the next one
\* exactly when every page of the batch came back with records, and leaves
\* the loop to return exactly when all came back and one of them was empty;
\* no other step ends the gather but the propagation of an exception.  When
\* no page fails, the paginator returns in the end.
C3_StopsExactlyOnEmptyPage ==
    /\ [][pc = "gather" /\ pc' # "gather" =>
            /\ pc' = "launch" <=> /\ Pending = {}
                                  /\ \A k \in DOMAIN tasks :
                                        tasks[k].state = "done" /\ tasks[k].result # <<>>
            /\ pc' = "return" <=> /\ Pending = {}
                                  /\ \A k \in DOMAIN tasks : tasks[k].state = "done"
                                  /\ \E k \in DOMAIN tasks : tasks[k].result = <<>>
            /\ pc' = "failed" <=> \E k \in DOMAIN tasks : tasks[k].state = "raised"
            /\ pc' = "launch" => i' = i + step]_vars
    /\ [][pc = "launch" => pc' = "gather" /\ Len(requested') = Len(requested) + step]_vars
    /\ (\A p \in 1..MaxPage : ~Fails(p)) => <>Returned

C3_Witness ==
    /\ pc = "return"
    /\ Len(requested) = 2 * step
    /\ \A p \in 1..step : PageRecords(p) # <<>>

\* C4 as stated: an empty page 1 makes the result the empty list.
C4_EmptyFirstPageGivesEmptyResult ==
    (Returned /\ EmptyPage(1)) => assets = <<>>

\* C4 as amended: an empty page 1 ends the paginator with the first batch,
\* and the result is the records of the other pages of that batch, in page
\* order; it is the empty list when these are all empty.
C4_EmptyFirstPageEndsWithFirstBatch ==
    (EmptyPage(1) /\ pc \notin {"start", "launch", "gather", "failed"}) =>
        /\ requested = [k \in 1..step |-> k]
        /\ all_asset_data = Flatten([k \in 1..(step - 1) |-> PageRecords(k + 1)])
        /\ (\A p \in 2..step : PageRecords(p) = <<>>) => all_asset_data = <<>>
        /\ Returned => assets = all_asset_data

C4_Witness ==
    /\ Returned
    /\ EmptyPage(1)
    /\ assets = PageRecords(2)
    /\ assets # <<>>

\* C5: once a page of the batch [i, i+step) has returned zero records, no
\* page from i+step on is ever requested; every page of the batch has been
\* requested; and when the gather of the batch has returned, the records of
\* all its pages are in the result, those of the pages after the empty one
\* too.
C5_BatchOfEmptyPageIsTheLast ==
    (\E k \in DOMAIN tasks : tasks[k].state = "done" /\ tasks[k].result = <<>>) =>
        /\ \A n \in DOMAIN requested : requested[n] < i + step
        /\ \A p \in i..(i + step - 1) : \E n \in DOMAIN requested : requested[n] = p
        /\ pc \notin {"gather", "failed"} =>
              /\ pc # "launch"
              /\ all_asset_data = ConcatPages(i + step - 1)
              /\ Len(all_asset_data) =
                    Len(ConcatPages(i - 1))
                        + SumOfSizes(i + step - 1) - SumOfSizes(i - 1)

C5_Witness ==
    /\ Returned
    /\ step = NUM_OF_CONCURRENT_SESSIONS
    /\ \E p, q \in CurrentBatch : p < q /\ EmptyPage(p) /\ PageRecords(q) # <<>>
    /\ \E k \in DOMAIN assets : assets[k].id > PageLimit

\* C6: nothing is requested and nothing is appended while a request of the
\* current batch is unresolved, also when another one has already returned
\* an empty page.
C6_BatchesJoinBeforeProceeding ==
    [][(requested' # requested \/ all_asset_data' # all_asset_data) =>
            Pending = {}]_vars

C6_Witness ==
    /\ pc = "gather"
    /\ i > 1
    /\ \E k \in DOMAIN tasks : tasks[k].state = "done" /\ tasks[k].result = <<>>
    /\ \E k \in Pending : PageRecords(tasks[k].page) # <<>>
    /\ all_asset_data = ConcatPages(i - 1)
    /\ Len(requested) = i + step - 1

\* C7: a request answered with an error code other than 404 never lets the
\* paginator return a list: its batch is the last one launched, the run ends
\* with the exception of a request of that batch, and nothing is returned.
\* A request answered with 404 returns an empty page.
C7_FatalErrorFailsThePaginator ==
    /\ \A n \in DOMAIN requested :
          LET p == requested[n] IN
          (~Response(p).neterr /\ Response(p).error_code \notin {0, 404}) =>
              /\ ~Returned
              /\ pc \in {"gather", "failed"}
              /\ p \in CurrentBatch
              /\ \A m \in DOMAIN requested : requested[m] < i + step
    /\ pc = "failed" /\ FetchFailed =>
          /\ error.page \in CurrentBatch
          /\ Fails(error.page)
          /\ ~Returned
    /\ \A k \in DOMAIN tasks :
          LET r == Response(tasks[k].page) IN
          (tasks[k].state # "in_flight" /\ ~r.neterr /\ r.error_code = 404) =>
              tasks[k].state = "done" /\ tasks[k].result = <<>>

C7_Witness ==
    /\ pc = "failed"
    /\ error.type = "Exception"
    /\ Response(error.page).error_code = 500
    /\ all_asset_data # <<>>
    /\ \E k \in DOMAIN tasks :
          tasks[k].state = "done" /\ Response(tasks[k].page).error_code = 404

\* C8: when the paginator fails, the script ends there: the csv file is as
\* it was before the run and has not been read; and whenever the file
\* differs from what it was, the paginator had returned.
C8_FailedFetchLeavesStoreUntouched ==
    /\ FetchFailed =>
          /\ csv_file = csv_before
          /\ crypto_df = NoFrame
          /\ pc = "failed"
    /\ csv_file # csv_before => Returned
    /\ crypto_df # NoFrame => Returned

C8_Witness ==
    /\ pc = "failed"
    /\ step = NUM_OF_CONCURRENT_SESSIONS
    /\ error = [type |-> "Exception", page |-> 3]
    /\ csv_before.exists
    /\ csv_file = csv_before

\* C9 as stated: a request whose first attempt fails in the transport and
\* whose retry would be answered ends as if it had been answered at once.
C9_TransientFailureIsRetried ==
    \A k \in DOMAIN tasks :
        LET r == Response(tasks[k].page) IN
        (r.neterr /\ r.error_code = 0 /\ tasks[k].state # "in_flight") =>
            tasks[k].state = "done" /\ tasks[k].result = r.data

\* C10 as stated: when the gather of a batch has raised, no request of the
\* batch is in flight any more.
C10_FailedBatchIsCancelled ==
    (pc = "failed" /\ FetchFailed) => Pending = {}

(* ------------------------ the merge and the store ---------------------- *)

\* the five fields of a stored row, and the attribute of a fetched asset
\* each is filled from
Fields == {"Symbol", "Name", "Slug", "Price in USD", "Rank"}

Fetched(asset, c) ==
    IF c = "Symbol" THEN asset.symbol
    ELSE IF c = "Name" THEN asset.name
    ELSE IF c = "Slug" THEN asset.slug
    ELSE IF c = "Price in USD" THEN asset.price_usd ELSE asset.rank

Null(value) == value.t \in {"nan", "none"}

\* equality of two values as Python's == and pandas' isna see it: two nulls,
\* two equal texts, two numbers of the same magnitude (7 == 7.0)
SameValue(a, b) ==
    \/ Null(a) /\ Null(b)
    \/ /\ ~Null(a) /\ ~Null(b)
       /\ (a.t = "str") = (b.t = "str")
       /\ IF a.t = "str" THEN a.v = b.v ELSE FloatText(a.v) = FloatText(b.v)

\* the prior record set: the store as the run loads it
PriorSet == read_cryptocurrencies_from_csv(csv_before)

PriorIds == Range(PriorSet.index)

FetchedIds == {assets[k].id : k \in DOMAIN assets}

\* the asset FetchResult holds last for an identifier
LastIndex(id) ==
    CHOOSE k \in DOMAIN assets :
        assets[k].id = id /\ \A j \in DOMAIN assets : assets[j].id = id => j <= k

LastFetched(id) == assets[LastIndex(id)]

\* the script has upserted and sorted
Sorted == pc \in {"save", "done"}

\* C11: after upsert and sort, the row of every identifier that is both in
\* the prior record set and in FetchResult has its five fields equal to the
\* values of the fetched asset (the one fetched last for the identifier), a
\* value the remote does not give being a null; so it has them in the file
\* that is saved.
C11_FetchedRowReplacesStoredRow ==
    /\ Sorted =>
          \A id \in PriorIds \cap FetchedIds :
              /\ id \in Range(crypto_df.index)
              /\ \A c \in Fields :
                    /\ c \in Range(crypto_df.columns)
                    /\ SameValue(crypto_df.val[c][id], Fetched(LastFetched(id), c))
    /\ pc = "done" =>
          \A k \in DOMAIN csv_file.rows :
              csv_file.rows[k].ID \in PriorIds \cap FetchedIds =>
                  \A c \in Fields :
                      FloatText(csv_file.rows[k].cell[c])
                          = FloatText(CsvText(Fetched(LastFetched(csv_file.rows[k].ID), c)))

\* asset 1 is stored with a price, a rank and texts of its own and is fetched
\* with other texts and with neither price nor rank
C11_Witness ==
    /\ pc = "save"
    /\ run = 1
    /\ 1 \in PriorIds
    /\ \A c \in Fields : ~Null(PriorSet.val[c][1])
    /\ 1 \in FetchedIds
    /\ LastFetched(1) = UnpricedAsset(1)
    /\ \A c \in Fields : ~SameValue(PriorSet.val[c][1], crypto_df.val[c][1])
    /\ Null(crypto_df.val["Price in USD"][1])
    /\ Null(crypto_df.val["Rank"][1])

\* the identifiers the prior record set holds and FetchResult does not
RetainedIds == PriorIds \ FetchedIds

\* the rows of a csv file that carry the identifier
RowsOf(file, id) == {k \in DOMAIN file.rows : file.rows[k].ID = id}

\* C12: the row of every identifier that is in the prior record set alone is
\* present after upsert, after sort and after save, each of its five fields
\* with the value it had (an integer may be written as the float of the same
\* magnitude, 3 as 3.0, when its column holds a null).
C12_RetainedRowIsKept ==
    /\ pc \in {"sort", "save", "done"} =>
          \A id \in RetainedIds :
              /\ id \in Range(crypto_df.index)
              /\ \A c \in Fields :
                    SameValue(crypto_df.val[c][id], PriorSet.val[c][id])
    /\ pc = "done" =>
          \A id \in RetainedIds :
              /\ RowsOf(csv_file, id) # {}
              /\ \A k \in RowsOf(csv_file, id), j \in RowsOf(csv_before, id), c \in Fields :
                    FloatText(csv_file.rows[k].cell[c]) = FloatText(csv_before.rows[j].cell[c])

\* asset 1 is stored with rank 3 and is not fetched, another asset is fetched
\* without a rank: the row of asset 1 is saved, its rank now written 3.0
C12_Witness ==
    /\ pc = "done"
    /\ run = 1
    /\ 1 \in RetainedIds
    /\ FetchedIds # {}
    /\ \E j \in RowsOf(csv_before, 1) : csv_before.rows[j].cell["Rank"] = "3"
    /\ \E k \in RowsOf(csv_file, 1) :
          /\ csv_file.rows[k].cell["Rank"] = "3.0"
          /\ csv_file.rows[k].cell["Symbol"] = "OLD"
          /\ csv_file.rows[k].cell["Price in USD"] = "2.5"

RECURSIVE LastOccurrences(_)
\* the elements of a sequence, each at the place of its last occurrence
LastOccurrences(s) ==
    IF s = <<>> THEN <<>>
    ELSE LET rest == LastOccurrences(Tail(s))
         IN IF Head(s) \in Range(rest) THEN rest ELSE <<Head(s)>> \o rest

\* the identifiers of FetchResult in its order
FetchedOrder == LastOccurrences([k \in DOMAIN assets |-> assets[k].id])

\* the identifiers retained from the prior record set alone, in its order
RetainedOrder == SelectSeq(PriorSet.index, LAMBDA id : id \notin FetchedIds)

\* the identifiers of the rows of a csv file, in the order of the rows
StoredOrder(file) == [k \in DOMAIN file.rows |-> file.rows[k].ID]

\* C13: upsert ranks every fetched row with its 0-based index in FetchResult
\* and leaves the retained rows unranked; after sort, and in the file after
\* save, the fetched rows stand in the order of FetchResult and the retained
\* rows after them in the order they had; the sort does not fail on the
\* unranked rows.
C13_StoredOrderIsFetchOrder ==
    /\ pc = "sort" =>
          /\ \A id \in FetchedIds :
                SameValue(crypto_df.val["Order"][id],
                          Value("int", ToString(LastIndex(id) - 1)))
          /\ \A id \in RetainedIds : Null(crypto_df.val["Order"][id])
    /\ Sorted => crypto_df.index = FetchedOrder \o RetainedOrder
    /\ pc = "done" => StoredOrder(csv_file) = FetchedOrder \o RetainedOrder
    /\ (pc = "done" /\ PriorIds = {1} /\ FetchedOrder = <<2, 1, 3>>)
          => StoredOrder(csv_file) = <<2, 1, 3>>
    /\ (pc = "done" /\ PriorIds = {} /\ FetchedOrder = <<3, 1>>)
          => StoredOrder(csv_file) = <<3, 1>>

\* the store holds asset 1 before asset 3 and FetchResult is 2, 1 without
\* repetition: the file holds 2, 1, 3
C13_Witness ==
    /\ pc = "done"
    /\ run = 1
    /\ PriorSet.index = <<3, 1>>
    /\ [k \in DOMAIN assets |-> assets[k].id] = <<2, 1>>
    /\ StoredOrder(csv_file) = <<2, 1, 3>>

\* C14: a run over the file an earlier run saved, with the same FetchResult,
\* saves the same file again: the same header, the same identifiers in the
\* same order, the same text in every cell.
C14_SecondRunSavesTheSameFile ==
    (run > 1 /\ pc = "done") => csv_file = csv_before

\* the file of the first run holds fetched rows and two rows retained from
\* the store, one with a rank written as a float, and the second run has
\* saved
C14_Witness ==
    /\ run = 2
    /\ pc = "done"
    /\ FetchedIds # {}
    /\ Cardinality(RetainedIds) = 2
    /\ \E k \in DOMAIN csv_file.rows : csv_file.rows[k].cell["Rank"] = "3.0"
    /\ csv_file = csv_before

\* the store was loaded with an Order column left in it
LeftoverOrder == csv_before.exists /\ "Order" \in Range(csv_before.header)

\* C15: after sort the frame has no Order column, and the file a run writes,
\* whole or in part, has none, also when the store was loaded with an Order
\* column: upsert empties that column first, so the rows retained from such
\* a store are unranked and the stored order is the one of a store without
\* the column.
C15_OrderNeverStored ==
    /\ Sorted => "Order" \notin Range(crypto_df.columns)
    /\ (pc = "done" \/ csv_file # csv_before) =>
          /\ "Order" \notin Range(csv_file.header)
          /\ \A k \in DOMAIN csv_file.rows : "Order" \notin DOMAIN csv_file.rows[k].cell
    /\ (LeftoverOrder /\ pc = "sort") =>
          \A id \in RetainedIds : Null(crypto_df.val["Order"][id])
    /\ (LeftoverOrder /\ Sorted) => crypto_df.index = FetchedOrder \o RetainedOrder

\* the store holds two rows with an Order column that ranks them the other
\* way round, one of them is fetched again after a new asset: the file saved
\* has the fetched rows first and no Order column
C15_Witness ==
    /\ pc = "done"
    /\ run = 1
    /\ LeftoverOrder
    /\ PriorSet.index = <<1, 2>>
    /\ PriorSet.val["Order"][1] = Value("int", "1")
    /\ PriorSet.val["Order"][2] = Value("int", "0")
    /\ FetchedOrder = <<3, 1>>
    /\ StoredOrder(csv_file) = <<3, 1, 2>>
    /\ "Order" \notin Range(csv_file.header)

\* no element occurs twice in the sequence
NoRepeat(s) == \A a, b \in DOMAIN s : a # b => s[a] # s[b]

\* C16: the identifiers of the frame are pairwise distinct after load, after
\* upsert and after sort, those of the file at all times; from upsert on the
\* frame holds exactly the identifiers of the prior record set and of
\* FetchResult, and so does the file after save, an identifier that
\* FetchResult holds more than once having one row.
C16_IdentifiersAreUnique ==
    /\ pc \in {"upsert", "sort", "save", "done"} => NoRepeat(crypto_df.index)
    /\ pc = "upsert" => Range(crypto_df.index) = Range(StoredOrder(csv_before))
    /\ pc \in {"sort", "save", "done"} =>
          Range(crypto_df.index) = PriorIds \cup FetchedIds
    /\ NoRepeat(StoredOrder(csv_file))
    /\ pc = "done" => Range(StoredOrder(csv_file)) = PriorIds \cup FetchedIds

\* FetchResult holds asset 1 twice, with different values, and another
\* asset; the store held asset 1 and a third asset: three rows are saved
C16_Witness ==
    /\ pc = "done"
    /\ run = 1
    /\ \E j, k \in DOMAIN assets :
          j < k /\ assets[j].id = 1 /\ assets[k].id = 1 /\ assets[j] # assets[k]
    /\ 1 \in PriorIds
    /\ RetainedIds # {}
    /\ Cardinality(FetchedIds) = 2
    /\ Len(csv_file.rows) = 3
    /\ Cardinality(RowsOf(csv_file, 1)) = 1

\* the save has failed part-way
SaveFailed == pc = "failed" /\ error.type = "OSError"

\* C17 as stated: when the save fails part-way the file still holds the
\* complete prior record set.
C17_FailedSaveKeepsThePriorFile ==
    SaveFailed => csv_file = csv_before

(* ------------------------ the session and the requests ----------------- *)

\* C18: the session is open before any page is requested and while the loop
\* runs, and it is closed in every state after the loop: after the return
\* that follows an empty page, and after the exception of a page fetch; a
\* request is issued only on an open session.
C18_SessionSpansTheLoop ==
    /\ session = "unopened" <=> pc = "start"
    /\ session = "unopened" => requested = <<>>
    /\ pc \in {"launch", "gather", "return"} => session = "open"
    /\ pc \in {"failed", "read", "upsert", "sort", "save", "done"} => session = "closed"
    /\ Pending # {} /\ pc = "gather" => session = "open"

\* a page fetch of the second batch has raised and the run has ended
C18_Witness ==
    /\ pc = "failed"
    /\ FetchFailed
    /\ Len(requested) = 2 * step
    /\ session = "closed"

\* the number of batches launched so far
Batches == Len(requested) \div step

\* C19: the pages requested so far are 1 .. k*step in this order, each once,
\* k the number of batches launched (none before the first pass of the loop,
\* at least one from then on); the requests in flight are requests of the
\* last batch, at most step of them.
C19_RequestsAreWholeBatches ==
    /\ requested = [n \in 1..(Batches * step) |-> n]
    /\ Batches = 0 <=> (pc = "start" \/ (pc = "launch" /\ i = 1))
    /\ pc = "launch" => i = Batches * step + 1
    /\ Cardinality(Pending) <= step
    /\ \A k \in Pending :
          /\ tasks[k].page > (Batches - 1) * step
          /\ tasks[k].page <= Batches * step

\* two batches of two pages have been launched and both requests of the
\* second are in flight
C19_Witness ==
    /\ pc = "gather"
    /\ step = 2
    /\ requested = <<1, 2, 3, 4>>
    /\ Cardinality(Pending) = 2

\* C20 as stated: no request is in flight when the session is closed.
C20_NoRequestOnClosedSession ==
    session = "closed" => Pending = {}

=============================================================================
